---- MODULE Spec2Model ----
(***************************************************************************)
(* A model of the Tinify client package (src/tinify): the package-level    *)
(* key / client / proxy settings, Client.Request, the Source factories,    *)
(* the command accumulation of a Source (Resize, Convert, Transform) and   *)
(* the export calls built on Source.toResult.                              *)
(*                                                                         *)
(* Conventions.  A Go pointer or an optional value is a sequence of length *)
(* 0 (nil / absent) or 1.  An http.Header is a record of value lists, one  *)
(* field per header name the package reads.  A byte slice is a sequence of *)
(* tokens.  An error is a record holding the arguments of the message the  *)
(* code formats.  A Go panic is the outcome kind "panic"; the caller may   *)
(* recover from it and go on using the package.                            *)
(***************************************************************************)
EXTENDS Integers, Sequences, FiniteSets, TLC

(***************************************************************************)
(* Bounds of the model.                                                    *)
(***************************************************************************)
\* Width and Height of a resize option range over -1 .. MaxDim.
MaxDim == 1
\* Longest list of type names passed to Convert.
MaxConvertLen == 2

(***************************************************************************)
(* Program constants.                                                      *)
(***************************************************************************)
ResizeMethodScale == "scale"
ResizeMethodFit == "fit"
ResizeMethodCover == "cover"
ResizeMethodThumb == "thumb"

API_ENDPOINT == "https://api.tinify.com"

StatusBadRequest == 400

ConvertMIMETypes ==
    [png |-> "image/png", jpeg |-> "image/jpeg", webp |-> "image/webp", avif |-> "image/avif"]

(***************************************************************************)
(* State.                                                                  *)
(***************************************************************************)
VARIABLES
    key,        \* package variable key: the API key set by SetKey
    client,     \* package variable client: <<>> or <<Client>>
    proxy,      \* package variable proxy: the module-wide proxy URL
    transport,  \* tinifyProxyTransport.Proxy: the proxy function in force
    src,        \* the Source the caller holds: <<>> or <<Source>>
    disk,       \* the content of the output file: <<>> or <<data>>
    ret         \* the last call: operation, argument, outcome, HTTP exchange

vars == <<key, client, proxy, transport, src, disk, ret>>

(***************************************************************************)
(* Strings.                                                                *)
(***************************************************************************)
\* strings.HasPrefix
HasPrefix(s, prefix) ==
    /\ Len(s) >= Len(prefix)
    /\ SubSeq(s, 1, Len(prefix)) = prefix

(***************************************************************************)
(* Errors.  kind is the class of the error in the terms of the error       *)
(* taxonomy; msg is the fixed text of the message and code, status, error  *)
(* and message are the arguments formatted into it.                        *)
(***************************************************************************)
NewError(kind, msg) ==
    [kind |-> kind, msg |-> msg, code |-> 0, status |-> "", error |-> "", message |-> ""]

(***************************************************************************)
(* The record of a call.                                                   *)
(***************************************************************************)
NoCall ==
    [op |-> "none", arg |-> <<>>, kind |-> "ok", err |-> <<>>,
     source |-> <<>>, data |-> <<>>, count |-> 0, wrote |-> FALSE,
     sent |-> <<>>, resp |-> <<>>, fetch |-> <<>>]

(***************************************************************************)
(* Source and its command set.                                             *)
(***************************************************************************)
\* make(map[string]any)
EmptyMap == [n \in {} |-> <<>>]

\* A map assignment that loses the other keys.
MapAssignOnly(m, k, v) ==
    [n \in {k} |-> v]

\* m[k] = v on a Go map
MapAssign(m, k, v) ==
    [n \in (DOMAIN m) \cup {k} |-> IF n = k THEN v ELSE m[n]]

newSource(url, commands) ==
    [url |-> url,
     commands |-> IF commands # <<>> THEN commands[1] ELSE EmptyMap,
     compressionCount |-> ""]

(***************************************************************************)
(* Source.Resize: the checks made on a non-nil option; <<>> when the       *)
(* option passes.                                                          *)
(***************************************************************************)
\* Resize checks with the smallest width and height taken to be 0.
ResizeCheckFromZero(option) ==
    IF option.Method = ResizeMethodScale
    THEN IF (option.Width # 0) = (option.Height # 0)
         THEN <<NewError("validation", "resize with scale method needs one of width and height")>>
         ELSE <<>>
    ELSE IF option.Width < 0 \/ option.Height < 0
         THEN <<NewError("validation", "width and height must be >=0")>>
         ELSE <<>>

\* Resize checks without the test for a scale with both dimensions zero.
ResizeCheckNoZeroTest(option) ==
    IF option.Method = ResizeMethodScale
    THEN IF option.Width # 0 /\ option.Height # 0
         THEN <<NewError("validation",
                  "resize with scale method can only have either width or height set, but not both")>>
         ELSE <<>>
    ELSE IF option.Width < 1 \/ option.Height < 1
         THEN <<NewError("validation", "width and height must be >=1")>>
         ELSE <<>>

ResizeCheck(option) ==
    IF option.Method = ResizeMethodScale
    THEN IF option.Width # 0 /\ option.Height # 0
         THEN <<NewError("validation",
                  "resize with scale method can only have either width or height set, but not both")>>
         ELSE IF option.Width = 0 /\ option.Height = 0
         THEN <<NewError("validation",
                  "resize with scale method cannot have width and height both set to zero")>>
         ELSE <<>>
    ELSE IF option.Width < 1
         THEN <<NewError("validation", "width must be >=1")>>
         ELSE IF option.Height < 1
         THEN <<NewError("validation", "height must be >=1")>>
         ELSE <<>>

\* A Resize that stores its option before it tests it.
ResizeCallStoreFirst(option) ==
    /\ src # <<>>
    /\ LET err == IF option = <<>>
                  THEN <<NewError("validation", "option for resize is required")>>
                  ELSE ResizeCheck(option[1])
       IN /\ src' = IF option # <<>>
                    THEN <<[src[1] EXCEPT !.commands = MapAssign(@, "resize", option[1])]>>
                    ELSE src
          /\ ret' = [NoCall EXCEPT !.op = "Resize", !.arg = option,
                                   !.kind = IF err = <<>> THEN "ok" ELSE "error",
                                   !.err = err]
    /\ UNCHANGED <<key, client, proxy, transport, disk>>

\* Source.Resize(option); option is <<>> (nil) or <<ResizeOption>>.
ResizeCall(option) ==
    /\ src # <<>>
    /\ LET err == IF option = <<>>
                  THEN <<NewError("validation", "option for resize is required")>>
                  ELSE ResizeCheck(option[1])
       IN /\ src' = IF err = <<>>
                    THEN <<[src[1] EXCEPT !.commands = MapAssign(@, "resize", option[1])]>>
                    ELSE src
          /\ ret' = [NoCall EXCEPT !.op = "Resize", !.arg = option,
                                   !.kind = IF err = <<>> THEN "ok" ELSE "error",
                                   !.err = err]
    /\ UNCHANGED <<key, client, proxy, transport, disk>>

(***************************************************************************)
(* Source.Convert.                                                         *)
(***************************************************************************)
\* ConvertMIMETypes[option]: a missing key reads as the empty string.
MimeOf(option) ==
    IF option \in DOMAIN ConvertMIMETypes THEN ConvertMIMETypes[option] ELSE ""

\* A loop that puts each MIME type in front of the ones before it.
RECURSIVE ConvertLoopPrepend(_, _, _)
ConvertLoopPrepend(options, i, allOpts) ==
    IF i > Len(options)
    THEN allOpts
    ELSE ConvertLoopPrepend(options, i + 1,
                     MimeOf(options[i]) \o (IF i # 1 THEN "," \o allOpts ELSE allOpts))

\* The range loop of Convert from index i (1-based) with allOpts so far.
RECURSIVE ConvertLoop(_, _, _)
ConvertLoop(options, i, allOpts) ==
    IF i > Len(options)
    THEN allOpts
    ELSE ConvertLoop(options, i + 1,
                     (IF i # 1 THEN allOpts \o "," ELSE allOpts) \o MimeOf(options[i]))

\* Source.Convert(options)
ConvertCall(options) ==
    /\ src # <<>>
    /\ LET allOpts == ConvertLoop(options, 1, "")
           err == IF Len(options) = 0
                  THEN <<NewError("validation", "at least one option for convert is required")>>
                  ELSE IF Len(allOpts) = 0
                  THEN <<NewError("validation", "concatenation of MIME types unexpectedly failed")>>
                  ELSE <<>>
       IN /\ src' = IF err = <<>>
                    THEN <<[src[1] EXCEPT !.commands = MapAssign(@, "convert", [Type |-> allOpts])]>>
                    ELSE src
          /\ ret' = [NoCall EXCEPT !.op = "Convert", !.arg = options,
                                   !.kind = IF err = <<>> THEN "ok" ELSE "error",
                                   !.err = err]
    /\ UNCHANGED <<key, client, proxy, transport, disk>>

(***************************************************************************)
(* Source.Transform(option); option is <<>> (nil) or <<TransformOptions>>. *)
(***************************************************************************)
\* A test that also wants the background to be white or black.
TransformCheckBackground(option) ==
    IF option = <<>> \/ option[1].Background \notin {"white", "black"}
    THEN <<NewError("validation", "at least one option for transform is required")>>
    ELSE <<>>

\* The test Transform makes of its option.
TransformCheck(option) ==
    IF option = <<>>
    THEN <<NewError("validation", "at least one option for transform is required")>>
    ELSE <<>>

\* Source.Transform(option)
TransformCall(option) ==
    /\ src # <<>>
    /\ LET err == TransformCheck(option)
       IN /\ src' = IF err = <<>>
                    THEN <<[src[1] EXCEPT !.commands = MapAssign(@, "transform", option[1])]>>
                    ELSE src
          /\ ret' = [NoCall EXCEPT !.op = "Transform", !.arg = option,
                                   !.kind = IF err = <<>> THEN "ok" ELSE "error",
                                   !.err = err]
    /\ UNCHANGED <<key, client, proxy, transport, disk>>

(***************************************************************************)
(* Package settings.                                                       *)
(***************************************************************************)
\* SetKey(setKey)
SetKeyCall(setKey) ==
    /\ key' = setKey
    /\ ret' = [NoCall EXCEPT !.op = "SetKey", !.arg = setKey]
    /\ UNCHANGED <<client, proxy, transport, src, disk>>

\* Proxy(setProxy)
ProxyCall(setProxy) ==
    /\ proxy' = setProxy
    /\ ret' = [NoCall EXCEPT !.op = "Proxy", !.arg = setProxy]
    /\ UNCHANGED <<key, client, transport, src, disk>>

\* NewClient(key)
NewClient(k) == [key |-> k, proxy |-> ""]

\* A GetClient that does not look at the key.
GetClientNoCheck ==
    [panic |-> FALSE,
     client |-> IF client = <<>> THEN <<NewClient(key)>> ELSE client]

\* GetClient(): panics on an empty key, otherwise the cached client, made
\* from the key on first use.
GetClient ==
    IF Len(key) = 0
    THEN [panic |-> TRUE, client |-> client]
    ELSE [panic |-> FALSE,
          client |-> IF client = <<>> THEN <<NewClient(key)>> ELSE client]

(***************************************************************************)
(* URLs and proxies.                                                       *)
(***************************************************************************)
HexDigits ==
    {"0", "1", "2", "3", "4", "5", "6", "7", "8", "9",
     "a", "b", "c", "d", "e", "f", "A", "B", "C", "D", "E", "F"}

CharAt(s, i) == SubSeq(s, i, i)

\* url.Parse(u) returns no error: u does not start with a colon (missing
\* protocol scheme) and every percent sign starts a valid escape.
URLParses(u) ==
    /\ ~HasPrefix(u, ":")
    /\ \A i \in 1..Len(u) :
          CharAt(u, i) = "%" =>
             /\ i + 2 <= Len(u)
             /\ CharAt(u, i + 1) \in HexDigits
             /\ CharAt(u, i + 2) \in HexDigits

\* The values of type func(*http.Request) (*url.URL, error) the package uses.
NilProxyFunc == [fn |-> "nil", url |-> <<>>]
ProxyFromEnvironment == [fn |-> "ProxyFromEnvironment", url |-> <<>>]
\* http.ProxyURL(fixedURL): never nil, also for a nil fixedURL.
ProxyURL(fixedURL) == [fn |-> "ProxyURL", url |-> fixedURL]

\* One of the attempts of reconfigureProxyTransport after the first: made
\* when reqProxy is still nil and candidate is not empty.  returned tells
\* that the function returns here, with fn.
ProxyAttempt(attempt, candidate) ==
    IF ~attempt.returned /\ attempt.fn = NilProxyFunc /\ Len(candidate) > 0
    THEN IF ~URLParses(candidate)
         THEN [returned |-> TRUE, fn |-> NilProxyFunc]
         ELSE [returned |-> FALSE, fn |-> ProxyURL(<<candidate>>)]
    ELSE attempt

\* The first attempt: the package variable proxy, over http.ProxyURL(nil).
GlobalProxyAttempt ==
    IF Len(proxy) > 0
    THEN IF ~URLParses(proxy)
         THEN [returned |-> TRUE, fn |-> NilProxyFunc]
         ELSE [returned |-> FALSE, fn |-> ProxyURL(<<proxy>>)]
    ELSE [returned |-> FALSE, fn |-> ProxyURL(<<>>)]

\* The last attempt: the environment, when reqProxy is still nil.
EnvironmentAttempt(attempt) ==
    IF ~attempt.returned /\ attempt.fn = NilProxyFunc
    THEN ProxyFromEnvironment
    ELSE attempt.fn

\* Client.reconfigureProxyTransport(proxyURL)
reconfigureProxyTransport(c, proxyURL) ==
    EnvironmentAttempt(ProxyAttempt(ProxyAttempt(GlobalProxyAttempt, c.proxy), proxyURL))

(***************************************************************************)
(* JSON.                                                                   *)
(***************************************************************************)
\* json.Marshal of the values the package sends: a map marshals key by
\* key, a ResizeOption drops a zero width or height (omitempty), and the
\* other structs marshal under their json field names.
RECURSIVE MarshalJSON(_)
MarshalJSON(v) ==
    IF "Method" \in DOMAIN v
    THEN LET fields == {"method"} \cup (IF v.Width # 0 THEN {"width"} ELSE {})
                                  \cup (IF v.Height # 0 THEN {"height"} ELSE {})
         IN [f \in fields |-> IF f = "method" THEN v.Method
                              ELSE IF f = "width" THEN v.Width ELSE v.Height]
    ELSE IF "Type" \in DOMAIN v THEN [type |-> v.Type]
    ELSE IF "Background" \in DOMAIN v THEN [background |-> v.Background]
    ELSE IF "url" \in DOMAIN v THEN [url |-> v.url]
    ELSE [k \in DOMAIN v |-> MarshalJSON(v[k])]

JSONPunctuation == {"{", "}", ":", ","}

\* json.Unmarshal(data, &errMsg) for an ErrorMessage: data is a sequence of
\* tokens; an object is "{", members key ":" value separated by ",", "}".
\* ok is FALSE when data is not an object of string members.
UnmarshalErrorMessage(data) ==
    LET n == Len(data) - 2
        inner == IF n >= 0 THEN SubSeq(data, 2, Len(data) - 1) ELSE <<>>
        wellFormed ==
            /\ Len(data) >= 2
            /\ data[1] = "{"
            /\ data[Len(data)] = "}"
            /\ (n = 0 \/ n % 4 = 3)
            /\ \A i \in 1..n :
                  /\ (i % 4 = 2 => inner[i] = ":")
                  /\ (i % 4 = 0 => inner[i] = ",")
                  /\ (i % 4 \in {1, 3} => inner[i] \notin JSONPunctuation)
        Member(name) ==
            LET at == {i \in 1..n : i % 4 = 1 /\ inner[i] = name}
            IN IF at = {} THEN ""
               ELSE inner[(CHOOSE i \in at : \A j \in at : j <= i) + 2]
    IN IF wellFormed
       THEN [ok |-> TRUE, Error |-> Member("error"), Message |-> Member("message")]
       ELSE [ok |-> FALSE, Error |-> "", Message |-> ""]

(***************************************************************************)
(* Client.Request(method, urlRequest, body).  body is [type, value] with   *)
(* type "bytes" ([]byte), "map" (map[string]any) or anything else.         *)
(* exchange is what the network does with the request, should one be sent: *)
(* <<>> for a transport error, <<response>> otherwise.                     *)
(***************************************************************************)
\* A request that has the JSON content type whatever its body.
NewRequestAlwaysJSON(c, method, fullURL, body, proxyFunc) ==
    [method |-> method,
     url |-> fullURL,
     body |-> IF body.type = "bytes" /\ Len(body.value) > 0
              THEN <<body.value>>
              ELSE IF body.type = "map" /\ DOMAIN body.value # {}
              THEN <<MarshalJSON(body.value)>>
              ELSE <<>>,
     contentType |-> <<"application/json">>,
     username |-> "api",
     password |-> c.key,
     proxy |-> proxyFunc]

\* The request built for fullURL, with proxyFunc as the proxy of the transport.
NewRequest(c, method, fullURL, body, proxyFunc) ==
    [method |-> method,
     url |-> fullURL,
     body |-> IF body.type = "bytes" /\ Len(body.value) > 0
              THEN <<body.value>>
              ELSE IF body.type = "map" /\ DOMAIN body.value # {}
              THEN <<MarshalJSON(body.value)>>
              ELSE <<>>,
     contentType |-> IF body.type = "map" THEN <<"application/json">> ELSE <<>>,
     username |-> "api",
     password |-> c.key,
     proxy |-> proxyFunc]

\* What Request returns: the request sent if any, the response and the error.
Requested(sent, response, err) ==
    [sent |-> sent, response |-> response, err |-> err]

\* A Request that sends whatever the type of the body.
DoRequestAnyBody(c, method, fullURL, body, proxyFunc, exchange) ==
    [transport |-> proxyFunc] @@
    (IF ~URLParses(fullURL)
     THEN Requested(<<>>, <<>>, <<NewError("request", "request failed")>>)
     ELSE IF exchange = <<>>
     THEN Requested(<<NewRequest(c, method, fullURL, body, proxyFunc)>>, <<>>,
                    <<NewError("transport", "transport error")>>)
     ELSE Requested(<<NewRequest(c, method, fullURL, body, proxyFunc)>>, exchange, <<>>))

\* A Request that sends the request again after a transport error.
DoRequestRetry(c, method, fullURL, body, proxyFunc, exchange) ==
    [transport |-> proxyFunc] @@
    (IF ~URLParses(fullURL)
     THEN Requested(<<>>, <<>>, <<NewError("request", "request failed")>>)
     ELSE IF body.type \notin {"bytes", "map"}
     THEN Requested(<<>>, <<>>,
             <<NewError("validation",
                        "invalid request body; must be either an image or a JSON object")>>)
     ELSE IF exchange = <<>>
     THEN Requested(<<NewRequest(c, method, fullURL, body, proxyFunc),
                      NewRequest(c, method, fullURL, body, proxyFunc)>>, <<>>,
                    <<NewError("transport", "transport error")>>)
     ELSE Requested(<<NewRequest(c, method, fullURL, body, proxyFunc)>>, exchange, <<>>))

\* The request, once the URL is complete and the proxy set on the transport.
DoRequest(c, method, fullURL, body, proxyFunc, exchange) ==
    [transport |-> proxyFunc] @@
    (IF ~URLParses(fullURL)
     THEN Requested(<<>>, <<>>, <<NewError("request", "request failed")>>)
     ELSE IF body.type \notin {"bytes", "map"}
     THEN Requested(<<>>, <<>>,
             <<NewError("validation",
                        "invalid request body; must be either an image or a JSON object")>>)
     ELSE IF exchange = <<>>
     THEN Requested(<<NewRequest(c, method, fullURL, body, proxyFunc)>>, <<>>,
                    <<NewError("transport", "transport error")>>)
     ELSE Requested(<<NewRequest(c, method, fullURL, body, proxyFunc)>>, exchange, <<>>))

\* A Request that takes every urlRequest as it is.
ClientRequestNoPrefix(c, method, urlRequest, body, exchange) ==
    DoRequest(c, method, urlRequest, body, reconfigureProxyTransport(c, ""), exchange)

ClientRequest(c, method, urlRequest, body, exchange) ==
    DoRequest(c, method,
              IF ~HasPrefix(urlRequest, "https") THEN API_ENDPOINT \o urlRequest ELSE urlRequest,
              body, reconfigureProxyTransport(c, ""), exchange)

\* c.Request(method, urlRequest, body) called by a program on the Client c.
RequestCall(c, method, urlRequest, body, exchange) ==
    /\ \E q \in {ClientRequest(c, method, urlRequest, body, exchange)} :
          /\ transport' = q.transport
          /\ ret' = [NoCall EXCEPT
                       !.op = "Request",
                       !.arg = [client |-> c, method |-> method,
                                urlRequest |-> urlRequest, body |-> body],
                       !.kind = IF q.err # <<>> THEN "error" ELSE "ok",
                       !.err = q.err, !.sent = q.sent, !.resp = q.response]
    /\ UNCHANGED <<key, client, proxy, src, disk>>

(***************************************************************************)
(* HTTP responses.                                                         *)
(***************************************************************************)
\* http.Response.Status for the status codes the model uses.
StatusLine(code) ==
    CASE code = 200 -> "200 OK"
      [] code = 201 -> "201 Created"
      [] code = 400 -> "400 Bad Request"
      [] code = 401 -> "401 Unauthorized"
      [] code = 429 -> "429 Too Many Requests"
      [] OTHER -> "500 Internal Server Error"

\* Body is the data io.ReadAll yields; ReadErr tells that it fails.  Closed
\* tells whether Body.Close has been called: the HTTP client hands the
\* response over with its body open.
Response(code, header, body, readErr) ==
    [StatusCode |-> code, Status |-> StatusLine(code), Header |-> header,
     Body |-> body, ReadErr |-> readErr, Closed |-> FALSE]

\* http.Header.Get: the first value of the header, or the empty string.
HeaderGet(header, name) ==
    IF Len(header[name]) = 0 THEN "" ELSE header[name][1]

Digits ==
    [c \in {"0", "1", "2", "3", "4", "5", "6", "7", "8", "9"} |->
        CASE c = "0" -> 0 [] c = "1" -> 1 [] c = "2" -> 2 [] c = "3" -> 3
          [] c = "4" -> 4 [] c = "5" -> 5 [] c = "6" -> 6 [] c = "7" -> 7
          [] c = "8" -> 8 [] OTHER -> 9]

\* The largest int of a build whose int has 32 bits, which is the build the
\* model takes; a build with 64 bits does the same at its own limits.
MaxInt == 2147483647

MinInt == (0 - MaxInt) - 1

\* The number read so far, n, with the digit d appended, as strconv's
\* ParseUint goes through the digits: an int, "min" for MaxInt + 1 exactly,
\* "big" for a larger number that an unsigned int of the same size holds,
\* and "range" once that overflows too.
AtoiStep(n, d) ==
    IF n.kind # "int" THEN [kind |-> "range", v |-> 0]
    ELSE IF n.v > 429496729 \/ (n.v = 429496729 /\ d > 5) THEN [kind |-> "range", v |-> 0]
    ELSE IF n.v < 214748364 \/ (n.v = 214748364 /\ d <= 7)
    THEN [kind |-> "int", v |-> 10 * n.v + d]
    ELSE IF n.v = 214748364 /\ d = 8 THEN [kind |-> "min", v |-> 0]
    ELSE [kind |-> "big", v |-> 0]

\* The digits of str from index i: the first character that is no digit is
\* a syntax error, and the first overflow of the unsigned int a range error.
RECURSIVE AtoiDigits(_, _, _)
AtoiDigits(str, i, n) ==
    IF i > Len(str) \/ n.kind = "range" THEN n
    ELSE IF CharAt(str, i) \notin DOMAIN Digits THEN [kind |-> "syntax", v |-> 0]
    ELSE AtoiDigits(str, i + 1, AtoiStep(n, Digits[CharAt(str, i)]))

\* What Atoi returns for the sign and the number read.
AtoiValue(negative, parsed) ==
    IF parsed.kind = "syntax" THEN [value |-> 0, ok |-> FALSE]
    ELSE IF parsed.kind = "int"
    THEN [value |-> IF negative THEN 0 - parsed.v ELSE parsed.v, ok |-> TRUE]
    ELSE IF parsed.kind = "min" /\ negative THEN [value |-> MinInt, ok |-> TRUE]
    ELSE [value |-> IF negative THEN MinInt ELSE MaxInt, ok |-> FALSE]

\* strconv.Atoi(str): the value of an optionally signed decimal number; 0
\* with an error for a string that is none; the nearest int with an error
\* for a number that is out of the range of int.
Atoi(str) ==
    LET signed == Len(str) > 0 /\ CharAt(str, 1) \in {"+", "-"}
        digits == IF signed THEN SubSeq(str, 2, Len(str)) ELSE str
    IN AtoiValue(signed /\ CharAt(str, 1) = "-",
                 IF Len(digits) = 0 THEN [kind |-> "syntax", v |-> 0]
                 ELSE AtoiDigits(digits, 1, [kind |-> "int", v |-> 0]))

\* NewResult(meta, data)
NewResult(meta, data) == [data |-> data, meta |-> meta]

\* ResultMeta.compressionCount()
compressionCount(meta) ==
    LET c == meta.CompressionCount
    IN IF Len(c) = 0 THEN 0 ELSE Atoi(c[1]).value

\* ResultMeta.width()
metaWidth(meta) ==
    IF Len(meta.ImageWidth) = 0 THEN 0 ELSE Atoi(meta.ImageWidth[1]).value

\* ResultMeta.height()
metaHeight(meta) ==
    IF Len(meta.ImageHeight) = 0 THEN 0 ELSE Atoi(meta.ImageHeight[1]).value

\* ResultMeta.location()
metaLocation(meta) ==
    IF Len(meta.Location) = 0 THEN "" ELSE meta.Location[1]

\* ResultMeta.size()
metaSize(meta) ==
    IF Len(meta.ContentLength) = 0 THEN 0 ELSE Atoi(meta.ContentLength[1]).value

\* ResultMeta.mediaType()
metaMediaType(meta) ==
    IF Len(meta.ContentType) = 0 THEN "" ELSE meta.ContentType[1]

\* The accessors called on the ResultMeta that NewResultMeta makes of meta.
MetaCall(meta) ==
    /\ ret' = [NoCall EXCEPT
                 !.op = "Meta", !.arg = meta,
                 !.data = [width |-> metaWidth(meta), height |-> metaHeight(meta),
                           size |-> metaSize(meta),
                           compressionCount |-> compressionCount(meta),
                           location |-> metaLocation(meta),
                           mediaType |-> metaMediaType(meta)]]
    /\ UNCHANGED <<key, client, proxy, transport, src, disk>>

(***************************************************************************)
(* Source factories.                                                       *)
(***************************************************************************)
\* A test of the Location header alone.
HasLocationAnyStatus(response) ==
    Len(response.Header.Location) > 0

\* The test getSourceFromResponse makes to take the Location of a response.
HasLocation(response) ==
    /\ Len(response.Header.Location) > 0
    /\ response.StatusCode # StatusBadRequest

\* getSourceFromResponse(response): indexing the absent Compression-Count
\* header panics after the Source was made.
getSourceFromResponse(response) ==
    LET location == response.Header.Location
        count == response.Header.CompressionCount
    IN IF HasLocation(response)
       THEN IF Len(count) = 0
            THEN [panic |-> TRUE, s |-> <<>>, err |-> <<>>]
            ELSE [panic |-> FALSE,
                  s |-> <<[newSource(location[1], <<>>) EXCEPT !.compressionCount = count[1]]>>,
                  err |-> <<>>]
       ELSE [panic |-> FALSE, s |-> <<>>,
             err |-> <<[NewError("upload", "empty location and/or status error")
                          EXCEPT !.code = response.StatusCode]>>]

\* The part FromBuffer and FromUrl share: GetClient().Request(POST, "/shrink",
\* body) and the interpretation of the response.
Upload(op, arg, body, exchange) ==
    IF GetClient.panic
    THEN /\ ret' = [NoCall EXCEPT !.op = op, !.arg = arg, !.kind = "panic"]
         /\ UNCHANGED <<client, transport, src>>
    ELSE \E q \in {ClientRequest(GetClient.client[1], "POST", "/shrink", body, exchange)} :
            /\ client' = GetClient.client
            /\ transport' = q.transport
            /\ IF q.err # <<>>
               THEN /\ ret' = [NoCall EXCEPT !.op = op, !.arg = arg, !.kind = "error",
                                             !.err = q.err, !.sent = q.sent]
                    /\ src' = src
               ELSE \E r \in {getSourceFromResponse(q.response[1])} :
                       /\ ret' = [NoCall EXCEPT !.op = op, !.arg = arg,
                                                !.kind = IF r.panic THEN "panic"
                                                         ELSE IF r.err # <<>> THEN "error"
                                                         ELSE "ok",
                                                !.err = r.err, !.source = r.s,
                                                !.sent = q.sent, !.resp = q.response]
                       /\ src' = IF r.s # <<>> THEN r.s ELSE src

\* FromBuffer(buf)
FromBufferCall(buf, exchange) ==
    /\ Upload("FromBuffer", buf, [type |-> "bytes", value |-> buf], exchange)
    /\ UNCHANGED <<key, proxy, disk>>

\* FromFile(path): file is what os.ReadFile yields, <<>> for an error and
\* <<buf>> otherwise.
FromFileCall(file, exchange) ==
    /\ IF file = <<>>
       THEN /\ ret' = [NoCall EXCEPT !.op = "FromFile", !.arg = file, !.kind = "error",
                                     !.err = <<NewError("io", "read failed")>>]
            /\ UNCHANGED <<client, transport, src>>
       ELSE Upload("FromFile", file, [type |-> "bytes", value |-> file[1]], exchange)
    /\ UNCHANGED <<key, proxy, disk>>

\* A body that gives the URL without the source object around it.
FromUrlBodyFlat(url) == [type |-> "map", value |-> [url |-> url]]

\* The body FromUrl makes of url.
FromUrlBody(url) == [type |-> "map", value |-> [source |-> [url |-> url]]]

\* FromUrl(url)
FromUrlCall(url, exchange) ==
    /\ IF Len(url) = 0
       THEN /\ ret' = [NoCall EXCEPT !.op = "FromUrl", !.arg = url, !.kind = "error",
                                     !.err = <<NewError("validation", "URL is required")>>]
            /\ UNCHANGED <<client, transport, src>>
       ELSE Upload("FromUrl", url, FromUrlBody(url), exchange)
    /\ UNCHANGED <<key, proxy, disk>>

(***************************************************************************)
(* Source.toResult and the export calls.                                   *)
(***************************************************************************)
\* The test toResult makes to treat a response as an error of the API.
IsAPIError(response) ==
    \/ response.StatusCode >= 400
    \/ HeaderGet(response.Header, "ContentType") = "application/json"

\* An error that leaves out the status line when the body does not decode.
APIErrorNoStatus(response) ==
    LET errMsg == UnmarshalErrorMessage(response.Body)
    IN IF response.ReadErr
       THEN [NewError("api", "status") EXCEPT !.status = response.Status]
       ELSE IF ~errMsg.ok
       THEN NewError("decoding", "couldn't unmarshal JSON body")
       ELSE [NewError("api", "Tinify API call failed")
                EXCEPT !.status = response.Status,
                       !.error = errMsg.Error,
                       !.message = errMsg.Message]

\* An error that repeats the error field in place of the message.
APIErrorNoMessage(response) ==
    LET errMsg == UnmarshalErrorMessage(response.Body)
    IN IF response.ReadErr
       THEN [NewError("api", "status") EXCEPT !.status = response.Status]
       ELSE IF ~errMsg.ok
       THEN [NewError("decoding", "couldn't unmarshal JSON body")
                EXCEPT !.status = response.Status]
       ELSE [NewError("api", "Tinify API call failed")
                EXCEPT !.status = response.Status,
                       !.error = errMsg.Error,
                       !.message = errMsg.Error]

\* The error toResult makes from a response that IsAPIError.
APIError(response) ==
    LET errMsg == UnmarshalErrorMessage(response.Body)
    IN IF response.ReadErr
       THEN [NewError("api", "status") EXCEPT !.status = response.Status]
       ELSE IF ~errMsg.ok
       THEN [NewError("decoding", "couldn't unmarshal JSON body")
                EXCEPT !.status = response.Status]
       ELSE [NewError("api", "Tinify API call failed")
                EXCEPT !.status = response.Status,
                       !.error = errMsg.Error,
                       !.message = errMsg.Message]

\* A test that lets every Source through.
HasNoURLNever(s) == FALSE

\* The first test of toResult.
HasNoURL(s) == Len(s.url) = 0

\* What toResult returns for a response.
ResultOf(response) ==
    IF IsAPIError(response)
    THEN [r |-> <<>>, err |-> <<APIError(response)>>]
    ELSE IF response.ReadErr
    THEN [r |-> <<>>, err |-> <<NewError("io", "read failed")>>]
    ELSE [r |-> <<NewResult(response.Header, response.Body)>>, err |-> <<>>]

\* toResult once Request has returned q to the client c.
AfterRequest(c, q) ==
    [panic |-> FALSE, sent |-> q.sent, resp |-> q.response,
     client |-> c, transport |-> q.transport] @@
    (IF q.err # <<>> THEN [r |-> <<>>, err |-> q.err] ELSE ResultOf(q.response[1]))

\* toResult when it makes no request.
NoRequest(panic, err) ==
    [panic |-> panic, r |-> <<>>, err |-> err, sent |-> <<>>, resp |-> <<>>,
     client |-> client, transport |-> transport]

\* A toResult that keeps the last image written and gives it again without
\* a request.
toResultCached(s, exchange) ==
    IF HasNoURL(s)
    THEN NoRequest(FALSE, <<NewError("validation", "url is empty")>>)
    ELSE IF GetClient.panic
    THEN NoRequest(TRUE, <<>>)
    ELSE IF disk # <<>>
    THEN [NoRequest(FALSE, <<>>) EXCEPT
             !.r = <<NewResult([Location |-> <<>>, CompressionCount |-> <<>>,
                                ContentType |-> <<"image/png">>], disk[1])>>]
    ELSE AfterRequest(GetClient.client,
                      ClientRequest(GetClient.client[1], "GET", s.url,
                                    [type |-> "map", value |-> s.commands], exchange))

\* s.toResult(): r and err are the values returned, sent and resp the HTTP
\* exchange made, client and transport the package state afterwards.
toResult(s, exchange) ==
    IF HasNoURL(s)
    THEN NoRequest(FALSE, <<NewError("validation", "url is empty")>>)
    ELSE IF GetClient.panic
    THEN NoRequest(TRUE, <<>>)
    ELSE AfterRequest(GetClient.client,
                      ClientRequest(GetClient.client[1], "GET", s.url,
                                    [type |-> "map", value |-> s.commands], exchange))

\* What an export call records of its toResult call.
FetchRecord(op, arg, t) ==
    [NoCall EXCEPT !.op = op, !.arg = arg, !.sent = t.sent, !.resp = t.resp,
                   !.fetch = IF t.panic THEN <<>> ELSE <<[r |-> t.r, err |-> t.err]>>]

\* s.ToFileC(path) and, with the count dropped, s.ToFile(path).  written
\* tells whether Result.ToFile manages to write the file.  With an error
\* from toResult the result is nil and result.compressionCount() panics.
FileExport(op, path, exchange, written) ==
    /\ src # <<>>
    /\ \E t \in {toResult(src[1], exchange)} :
          /\ client' = t.client
          /\ transport' = t.transport
          /\ IF t.panic \/ t.err # <<>>
             THEN /\ ret' = [FetchRecord(op, path, t) EXCEPT !.kind = "panic"]
                  /\ disk' = disk
             ELSE \E count \in {IF op = "ToFileC" THEN compressionCount(t.r[1].meta) ELSE 0} :
                     IF written
                     THEN /\ ret' = [FetchRecord(op, path, t) EXCEPT !.count = count,
                                                                    !.wrote = TRUE]
                          /\ disk' = <<t.r[1].data>>
                     ELSE /\ ret' = [FetchRecord(op, path, t) EXCEPT
                                        !.count = count, !.kind = "error",
                                        !.err = <<NewError("io", "write failed")>>]
                          /\ disk' = disk
    /\ UNCHANGED <<key, proxy, src>>

ToFileCCall(path, exchange, written) == FileExport("ToFileC", path, exchange, written)

ToFileCall(path, exchange, written) == FileExport("ToFile", path, exchange, written)

\* A ToBufferC that gives no count with its error.
BufferOfDropsCount(call, count, rawData) ==
    IF Len(rawData) = 0
    THEN [call EXCEPT !.kind = "error", !.data = rawData,
                      !.err = <<NewError("empty", "result returned zero bytes")>>]
    ELSE [call EXCEPT !.count = count, !.data = rawData]

\* What ToBufferC makes of the result r of toResult.
BufferOf(call, count, rawData) ==
    IF Len(rawData) = 0
    THEN [call EXCEPT !.kind = "error", !.count = count, !.data = rawData,
                      !.err = <<NewError("empty", "result returned zero bytes")>>]
    ELSE [call EXCEPT !.count = count, !.data = rawData]

\* s.ToBufferC() and, with the count dropped, s.ToBuffer().
BufferExport(op, exchange) ==
    /\ src # <<>>
    /\ \E t \in {toResult(src[1], exchange)} :
          /\ client' = t.client
          /\ transport' = t.transport
          /\ ret' = IF t.panic
                    THEN [FetchRecord(op, <<>>, t) EXCEPT !.kind = "panic"]
                    ELSE IF t.err # <<>>
                    THEN [FetchRecord(op, <<>>, t) EXCEPT !.kind = "error", !.err = t.err]
                    ELSE BufferOf(FetchRecord(op, <<>>, t),
                                  IF op = "ToBufferC" THEN compressionCount(t.r[1].meta) ELSE 0,
                                  t.r[1].data)
    /\ UNCHANGED <<key, proxy, src, disk>>

ToBufferCCall(exchange) == BufferExport("ToBufferC", exchange)

ToBufferCall(exchange) == BufferExport("ToBuffer", exchange)

(***************************************************************************)
(* The caller.  The package is synchronous: a call runs to its end, and    *)
(* the caller takes its results before it makes the next call.             *)
(***************************************************************************)
Idle == ret.op = "none"

\* The caller has looked at the results of the call and goes on.
Return ==
    /\ ~Idle
    /\ ret' = NoCall
    /\ UNCHANGED <<key, client, proxy, transport, src, disk>>

(***************************************************************************)
(* Inputs of the calls and behaviours of the network.                      *)
(***************************************************************************)
KeyInputs == {"", "key-1"}

Dims == (0 - 1)..MaxDim

\* ResizeMethod is a string type: a caller may pass any method.
MethodInputs ==
    {ResizeMethodScale, ResizeMethodFit, ResizeMethodCover, ResizeMethodThumb, "bogus"}

ResizeInputs ==
    {<<>>} \cup {<<[Method |-> m, Width |-> w, Height |-> h]>> :
                    m \in MethodInputs, w \in Dims, h \in Dims}

\* Two names of the lookup table and one that is not in it.
ConvertNames == {"png", "webp", "gif"}

ConvertInputs == UNION {[1..n -> ConvertNames] : n \in 0..MaxConvertLen}

TransformInputs == {<<>>, <<[Background |-> "white"]>>, <<[Background |-> "no colour"]>>}

UrlInputs == {"", "http://example.com/in.jpg"}

ImageData == <<"PNG", "IDAT", "IEND">>

BufInputs == {<<>>, ImageData}

FileInputs == {<<>>, <<ImageData>>}

PathInputs == {"out.png"}

OutputURL == "https://api.tinify.com/output/abc"

Header(location, count, contentType) ==
    [Location |-> location, CompressionCount |-> count, ContentType |-> contentType]

\* What the service may answer to an upload.
UploadResponses ==
    {Response(code, Header(location, count, <<"application/json">>), <<>>, FALSE) :
        code \in {201, 400, 429},
        location \in {<<>>, <<"">>, <<OutputURL>>, <<"/output/abc">>,
                      <<"HTTPS://api.tinify.com/output/abc">>},
        count \in {<<>>, <<"1">>}}

ErrorBody == <<"{", "error", ":", "TooManyRequests", ",", "message", ":", "quota exceeded", "}">>

\* What the service may answer to the GET of an export: body is the data
\* read and whether reading it fails.
FetchResponses ==
    {Response(code, Header(<<>>, count, contentType), body[1], body[2]) :
        code \in {200, 400, 429},
        count \in {<<>>, <<"1">>},
        contentType \in {<<"image/png">>, <<"application/json">>,
                         <<"application/json; charset=utf-8">>},
        body \in {<<<<>>, FALSE>>, <<ImageData, FALSE>>, <<ErrorBody, FALSE>>,
                  <<<<>>, TRUE>>}}

\* <<>> is a transport error.
UploadExchanges == {<<>>} \cup {<<r>> : r \in UploadResponses}

FetchExchanges == {<<>>} \cup {<<r>> : r \in FetchResponses}

\* A service that works: the upload is accepted, the export yields the image.
PlainUpload == <<Response(201, Header(<<OutputURL>>, <<"1">>, <<"application/json">>), <<>>, FALSE)>>

PlainFetch == <<Response(200, Header(<<>>, <<"2">>, <<"image/png">>), ImageData, FALSE)>>

(***************************************************************************)
(* The calls a program makes on the package.                               *)
(***************************************************************************)
SetKey == Idle /\ \E setKey \in KeyInputs : SetKeyCall(setKey)

FromBuffer ==
    Idle /\ \E buf \in BufInputs, x \in UploadExchanges : FromBufferCall(buf, x)

FromFile ==
    Idle /\ \E file \in FileInputs, x \in UploadExchanges : FromFileCall(file, x)

FromUrl ==
    Idle /\ \E url \in UrlInputs, x \in UploadExchanges : FromUrlCall(url, x)

Resize == Idle /\ \E option \in ResizeInputs : ResizeCall(option)

Convert == Idle /\ \E options \in ConvertInputs : ConvertCall(options)

Transform == Idle /\ \E option \in TransformInputs : TransformCall(option)

ToFileC ==
    Idle /\ \E path \in PathInputs, x \in FetchExchanges, written \in BOOLEAN :
               ToFileCCall(path, x, written)

ToFile ==
    Idle /\ \E path \in PathInputs, x \in FetchExchanges, written \in BOOLEAN :
               ToFileCall(path, x, written)

ToBufferC == Idle /\ \E x \in FetchExchanges : ToBufferCCall(x)

ToBuffer == Idle /\ \E x \in FetchExchanges : ToBufferCall(x)

\* The proxies a program sets: none, a proxy, and a string url.Parse rejects.
GlobalProxy == "http://global.proxy:3128"

ProxyInputs == {"", GlobalProxy, "http://%zz"}

Proxy == Idle /\ \E setProxy \in ProxyInputs : ProxyCall(setProxy)

\* The Clients Request is called on: one as NewClient makes it, and one
\* whose proxy field was set, which only code of the package can do.
ClientProxy == "http://client.proxy:8080"

ClientInputs == {NewClient("key-1"), [NewClient("key-1") EXCEPT !.proxy = ClientProxy]}

\* The bodies passed to Request: nil, []byte, map[string]any and a string.
BodyInputs ==
    {[type |-> "nil", value |-> <<>>],
     [type |-> "bytes", value |-> <<>>],
     [type |-> "bytes", value |-> ImageData],
     [type |-> "map", value |-> EmptyMap],
     [type |-> "map", value |-> [transform |-> [Background |-> "white"]]],
     [type |-> "string", value |-> <<"text">>]}

RequestURLInputs == {"/shrink", OutputURL, "/%zz"}

Request ==
    Idle /\ \E c \in ClientInputs, method \in {"GET", "POST"},
               urlRequest \in RequestURLInputs, body \in BodyInputs,
               x \in {<<>>, PlainFetch} :
               RequestCall(c, method, urlRequest, body, x)

\* SetKey with another key, for a program that changes its key.
SetKeyOther == Idle /\ SetKeyCall("key-2")

\* The same calls against a service that works.
FromBufferPlain == Idle /\ FromBufferCall(ImageData, PlainUpload)

TransformPlain == Idle /\ TransformCall(<<[Background |-> "white"]>>)

ToFileCPlain == Idle /\ \E path \in PathInputs : ToFileCCall(path, PlainFetch, TRUE)

ToFilePlain == Idle /\ \E path \in PathInputs : ToFileCall(path, PlainFetch, TRUE)

ToBufferCPlain == Idle /\ ToBufferCCall(PlainFetch)

ToBufferPlain == Idle /\ ToBufferCall(PlainFetch)

Init ==
    /\ key = ""
    /\ client = <<>>
    /\ proxy = ""
    /\ transport = ProxyFromEnvironment
    /\ src = <<>>
    /\ disk = <<>>
    /\ ret = NoCall

(***************************************************************************)
(* Spec: the command accumulation in full, against a service that works.   *)
(***************************************************************************)
Next ==
    \/ Return
    \/ SetKey
    \/ FromBufferPlain
    \/ Resize
    \/ Convert
    \/ Transform
    \/ ToFileCPlain
    \/ ToFilePlain
    \/ ToBufferCPlain
    \/ ToBufferPlain

Spec == Init /\ [][Next]_vars

(***************************************************************************)
(* SpecHttp: the factories and the exports against every answer of the     *)
(* service.                                                                *)
(***************************************************************************)
NextHttp ==
    \/ Return
    \/ SetKey
    \/ SetKeyOther
    \/ FromBuffer
    \/ FromFile
    \/ FromUrl
    \/ TransformPlain
    \/ ToFileC
    \/ ToFile
    \/ ToBufferC
    \/ ToBuffer

SpecHttp == Init /\ [][NextHttp]_vars

(***************************************************************************)
(* SpecClient: Client.Request called with every kind of body, and the      *)
(* proxy settings.                                                         *)
(***************************************************************************)
NextClient ==
    \/ Return
    \/ SetKey
    \/ Proxy
    \/ Request
    \/ FromBufferPlain
    \/ TransformPlain
    \/ ToBufferCPlain

SpecClient == Init /\ [][NextClient]_vars

(***************************************************************************)
(* SpecMeta: the accessors of ResultMeta on the headers of a response.     *)
(***************************************************************************)
\* The values of a header that should hold a number: none, numbers, a word
\* and a number above the largest int.
MetaNumbers == {<<>>, <<"12345">>, <<"-7">>, <<"abc">>, <<"3000000000">>}

MetaHeaders ==
    [ImageWidth : MetaNumbers, ImageHeight : MetaNumbers, ContentLength : MetaNumbers,
     CompressionCount : MetaNumbers, Location : {<<>>, <<OutputURL>>},
     ContentType : {<<>>, <<"image/png">>}]

Meta == Idle /\ \E meta \in MetaHeaders : MetaCall(meta)

NextMeta ==
    \/ Return
    \/ Meta

SpecMeta == Init /\ [][NextMeta]_vars

(***************************************************************************)
(* SpecAlias: the caller keeps the option objects it gave to Resize and to *)
(* Transform.  Both store the pointer they are given, so the object the    *)
(* command set holds under "resize" or "transform" is the caller's object  *)
(* and an assignment the caller makes to it is seen through the Source.    *)
(***************************************************************************)
\* *option = value by the caller, option being the pointer that the
\* command set holds under name.
OptionWrite(name, value) ==
    /\ src # <<>>
    /\ name \in DOMAIN src[1].commands
    /\ src' = <<[src[1] EXCEPT !.commands = MapAssign(@, name, value)]>>
    /\ ret' = [NoCall EXCEPT !.op = "Write", !.arg = <<value>>]
    /\ UNCHANGED <<key, client, proxy, transport, disk>>

ResizeOptionWrite ==
    Idle /\ \E option \in ResizeInputs \ {<<>>} : OptionWrite("resize", option[1])

TransformOptionWrite ==
    Idle /\ \E option \in TransformInputs \ {<<>>} : OptionWrite("transform", option[1])

NextAlias ==
    \/ Return
    \/ SetKey
    \/ FromBufferPlain
    \/ Resize
    \/ Transform
    \/ ResizeOptionWrite
    \/ TransformOptionWrite
    \/ ToBufferPlain

SpecAlias == Init /\ [][NextAlias]_vars

(***************************************************************************)
(* Properties.                                                             *)
(***************************************************************************)
CommandNames == {"resize", "convert", "transform"}

Factories == {"FromBuffer", "FromFile", "FromUrl"}

Exports == {"ToFileC", "ToFile", "ToBufferC", "ToBuffer"}

\* The command set of the Source the caller holds.
Commands == IF src = <<>> THEN EmptyMap ELSE src[1].commands

ExactlyOneNonzero(option) == (option.Width # 0) # (option.Height # 0)

BothAtLeastOne(option) == option.Width >= 1 /\ option.Height >= 1

NamedMethods == {ResizeMethodFit, ResizeMethodCover, ResizeMethodThumb}

ScaleRejected(option) ==
    option.Method = ResizeMethodScale /\ ~ExactlyOneNonzero(option)

OtherRejected(option) ==
    option.Method # ResizeMethodScale /\ ~BothAtLeastOne(option)

ResizeStored(option) ==
    /\ ret.kind = "ok"
    /\ ret.err = <<>>
    /\ "resize" \in DOMAIN Commands
    /\ Commands["resize"] = option

ValidationError ==
    /\ ret.kind = "error"
    /\ ret.err # <<>>
    /\ ret.err[1].kind = "validation"

C2_ResizeCommandValid ==
    "resize" \in DOMAIN Commands =>
        LET option == Commands["resize"]
        IN /\ option.Method = ResizeMethodScale => ExactlyOneNonzero(option)
           /\ option.Method \in NamedMethods => BothAtLeastOne(option)

\* An export was made on a Source that holds a scale resize command.
C2_Witness ==
    /\ ret.op \in Exports
    /\ ret.kind = "ok"
    /\ "resize" \in DOMAIN Commands
    /\ Commands["resize"].Method = ResizeMethodScale

\* The toResult call of the export has returned an error.
FetchFailed == ret.fetch # <<>> /\ ret.fetch[1].err # <<>>

\* The toResult call of the export has returned, after a response came in.
FetchAnswered == ret.op \in Exports /\ ret.fetch # <<>> /\ ret.resp # <<>>

\* C3: whenever the fetch step of an export fails (transport error, or a
\* response that is an API error such as status 429), each of ToFileC,
\* ToFile, ToBufferC and ToBuffer returns that error to its caller as an
\* error value, writes no file and returns no payload.
C3_FetchErrorReturned ==
    (ret.op \in Exports /\ FetchFailed) =>
        /\ ret.kind = "error"
        /\ ret.err = ret.fetch[1].err
        /\ ~ret.wrote
        /\ ret.data = <<>>

\* ToFileC has panicked on the error toResult made of a 429 response.
C3_Witness ==
    /\ ret.op = "ToFileC"
    /\ FetchFailed
    /\ ret.resp # <<>>
    /\ ret.resp[1].StatusCode = 429
    /\ ret.kind = "panic"

\* The upload was answered with a Location header and a status other than
\* bad request.
UploadAccepted ==
    /\ ret.op \in Factories
    /\ ret.resp # <<>>
    /\ Len(ret.resp[1].Header.Location) > 0
    /\ ret.resp[1].StatusCode # StatusBadRequest

\* C4: for every upload response that carries a Location header and whose
\* status is not bad request, the factory returns a Source whose URL is the
\* Location value and no error, whether or not a Compression-Count header is
\* present; the Compression-Count value is recorded on the Source when
\* present.
C4_LocationMakesSource ==
    UploadAccepted =>
        /\ ret.kind = "ok"
        /\ ret.err = <<>>
        /\ ret.source # <<>>
        /\ ret.source[1].url = ret.resp[1].Header.Location[1]
        /\ Len(ret.resp[1].Header.CompressionCount) > 0 =>
              ret.source[1].compressionCount = ret.resp[1].Header.CompressionCount[1]

\* FromBuffer has panicked on a 201 response with a Location header and no
\* Compression-Count header.
C4_Witness ==
    /\ ret.op = "FromBuffer"
    /\ UploadAccepted
    /\ ret.resp[1].StatusCode = 201
    /\ ret.resp[1].Header.Location = <<OutputURL>>
    /\ ret.resp[1].Header.CompressionCount = <<>>
    /\ ret.kind = "panic"
    /\ ret.source = <<>>

\* C5: if the upload response has no Location header, or its status is bad
\* request, the factory returns an error and no Source.
C5_NoLocationNoSource ==
    (/\ ret.op \in Factories
     /\ ret.resp # <<>>
     /\ \/ Len(ret.resp[1].Header.Location) = 0
        \/ ret.resp[1].StatusCode = StatusBadRequest) =>
        /\ ret.kind = "error"
        /\ ret.err # <<>>
        /\ ret.source = <<>>

\* FromUrl got an error for a 400 response that carries a Location header.
C5_Witness ==
    /\ ret.op = "FromUrl"
    /\ ret.resp # <<>>
    /\ ret.resp[1].StatusCode = StatusBadRequest
    /\ ret.resp[1].Header.Location = <<OutputURL>>
    /\ ret.kind = "error"
    /\ ret.source = <<>>

\* The content type names JSON, with or without parameters after it.
IndicatesJSON(contentType) == HasPrefix(contentType, "application/json")

\* C6: the fetch step returns a Result exactly when the status of the
\* response is below 400, its content type does not indicate JSON and the
\* body was read; every response with status >= 400 or a JSON content type
\* yields an error and no Result.
C6_ResultIffNotJSONError ==
    FetchAnswered =>
        LET response == ret.resp[1]
            apiError ==
                \/ response.StatusCode >= 400
                \/ IndicatesJSON(HeaderGet(response.Header, "ContentType"))
        IN /\ (ret.fetch[1].r # <<>>) <=> (~apiError /\ ~response.ReadErr)
           /\ apiError => (ret.fetch[1].err # <<>> /\ ret.fetch[1].r = <<>>)

\* toResult has returned a Result for a 200 response whose content type is
\* application/json with a charset parameter.
C6_Witness ==
    /\ FetchAnswered
    /\ ret.resp[1].StatusCode = 200
    /\ HeaderGet(ret.resp[1].Header, "ContentType") = "application/json; charset=utf-8"
    /\ ret.fetch[1].r # <<>>
    /\ ret.fetch[1].err = <<>>

\* C7: when a fetch response is an API error and its body decodes as an
\* {error, message} object, the error toResult returns carries the error
\* field and the message field of the body unchanged; for the body
\* {"error":"TooManyRequests","message":"quota exceeded"} these are
\* TooManyRequests and quota exceeded.
C7_APIErrorExposesFields ==
    (/\ FetchAnswered
     /\ IsAPIError(ret.resp[1])
     /\ ~ret.resp[1].ReadErr
     /\ UnmarshalErrorMessage(ret.resp[1].Body).ok) =>
        /\ ret.fetch[1].r = <<>>
        /\ ret.fetch[1].err # <<>>
        /\ ret.fetch[1].err[1].error = UnmarshalErrorMessage(ret.resp[1].Body).Error
        /\ ret.fetch[1].err[1].message = UnmarshalErrorMessage(ret.resp[1].Body).Message
        /\ ret.resp[1].Body = ErrorBody =>
              /\ ret.fetch[1].err[1].error = "TooManyRequests"
              /\ ret.fetch[1].err[1].message = "quota exceeded"

\* ToBufferC has returned the error made of a 429 response with the body
\* {"error":"TooManyRequests","message":"quota exceeded"}.
C7_Witness ==
    /\ ret.op = "ToBufferC"
    /\ FetchAnswered
    /\ ret.resp[1].StatusCode = 429
    /\ ret.resp[1].Body = ErrorBody
    /\ ret.kind = "error"
    /\ ret.err # <<>>
    /\ ret.err[1].error = "TooManyRequests"
    /\ ret.err[1].message = "quota exceeded"

\* C8: the fetch step of an export on a Source whose URL is empty returns a
\* validation error and sends no HTTP request; a request an export sends is
\* a GET for a Source whose URL is not empty.
C8_EmptyURLNoRequest ==
    ret.op \in Exports =>
        /\ src # <<>>
        /\ Len(src[1].url) = 0 =>
              /\ ret.sent = <<>>
              /\ ret.fetch # <<>>
              /\ ret.fetch[1].r = <<>>
              /\ ret.fetch[1].err # <<>>
              /\ ret.fetch[1].err[1].kind = "validation"
        /\ ret.sent # <<>> =>
              /\ ret.sent[1].method = "GET"
              /\ Len(src[1].url) > 0

\* An export was made, with a key set, on a Source whose URL is empty.
C8_Witness ==
    /\ ret.op \in Exports
    /\ key # ""
    /\ Len(src[1].url) = 0
    /\ ret.sent = <<>>
    /\ ret.fetch # <<>>
    /\ ret.fetch[1].err # <<>>
    /\ ret.fetch[1].err[1].msg = "url is empty"

\* The command a successful call stores under its name.
StoredBy(call) ==
    IF call.op = "Convert" THEN [Type |-> ConvertLoop(call.arg, 1, "")] ELSE call.arg[1]

CommandOf(op) ==
    CASE op = "Resize" -> "resize"
      [] op = "Convert" -> "convert"
      [] op = "Transform" -> "transform"
      [] OTHER -> "none"

\* C9: the command set has at most one entry per command name; a successful
\* Resize, Convert or Transform makes the entry of its name the option of
\* that call, and every other entry, and every entry on a call that fails or
\* on an export, stays as it was.
C9_LastWriteWins ==
    [][(src # <<>> /\ ret'.op \notin Factories) =>
          LET old == src[1].commands
              new == src'[1].commands
          IN /\ src' # <<>>
             /\ DOMAIN new \subseteq CommandNames
             /\ \A name \in CommandNames :
                   IF CommandOf(ret'.op) = name /\ ret'.kind = "ok"
                   THEN name \in DOMAIN new /\ new[name] = StoredBy(ret')
                   ELSE /\ name \in DOMAIN new <=> name \in DOMAIN old
                        /\ name \in DOMAIN old => new[name] = old[name]]_vars

\* A Resize has succeeded on a Source that holds all three commands.
C9_Witness ==
    /\ ret.op = "Resize"
    /\ ret.kind = "ok"
    /\ DOMAIN Commands = CommandNames

\* The comma-join of the MIME strings of the names, first name first.
RECURSIVE JoinMIME(_)
JoinMIME(names) ==
    IF Len(names) = 1
    THEN ConvertMIMETypes[names[1]]
    ELSE ConvertMIMETypes[Head(names)] \o "," \o JoinMIME(Tail(names))

\* C10: Convert of an empty list gives a validation error; Convert of a
\* non-empty list of names of the lookup table succeeds and stores under
\* "convert" the comma-join of their MIME strings in the order of the list.
C10_ConvertJoins ==
    ret.op = "Convert" =>
        /\ Len(ret.arg) = 0 => ValidationError
        /\ (Len(ret.arg) > 0 /\ \A i \in 1..Len(ret.arg) : ret.arg[i] \in DOMAIN ConvertMIMETypes) =>
              /\ ret.kind = "ok"
              /\ "convert" \in DOMAIN Commands
              /\ Commands["convert"].Type = JoinMIME(ret.arg)

\* Convert of png, webp has stored image/png,image/webp.
C10_Witness ==
    /\ ret.op = "Convert"
    /\ ret.arg = <<"png", "webp">>
    /\ ret.kind = "ok"
    /\ Commands["convert"].Type = "image/png,image/webp"

\* The names of the list that are in the lookup table, in the order of the list.
MappedNames(names) == SelectSeq(names, LAMBDA n : n \in DOMAIN ConvertMIMETypes)

\* Names of the table and names that are not in it are both in the list.
MixedNames(names) ==
    /\ Len(MappedNames(names)) > 0
    /\ Len(MappedNames(names)) < Len(names)

\* C11: Convert of a list that mixes names of the lookup table with names
\* that are not in it is not an error and stores under "convert" the
\* comma-join of the MIME strings of the mapped names only, in the order of
\* the list, with no empty segments.
C11_UnmappedDropped ==
    (ret.op = "Convert" /\ MixedNames(ret.arg)) =>
        /\ ret.kind = "ok"
        /\ "convert" \in DOMAIN Commands
        /\ Commands["convert"].Type = JoinMIME(MappedNames(ret.arg))

\* Convert of png, gif has stored image/png followed by a comma.
C11_Witness ==
    /\ ret.op = "Convert"
    /\ ret.arg = <<"png", "gif">>
    /\ ret.kind = "ok"
    /\ Commands["convert"].Type = "image/png,"

\* C12: Transform returns a validation error for a nil option; for every
\* other option, whatever its background, it succeeds and stores the option
\* under "transform".
C12_TransformStores ==
    ret.op = "Transform" =>
        /\ ret.arg = <<>> => ValidationError
        /\ ret.arg # <<>> =>
              /\ ret.kind = "ok"
              /\ ret.err = <<>>
              /\ "transform" \in DOMAIN Commands
              /\ Commands["transform"] = ret.arg[1]

\* Transform has stored a background that is no colour.
C12_Witness ==
    /\ ret.op = "Transform"
    /\ ret.arg = <<[Background |-> "no colour"]>>
    /\ ret.kind = "ok"
    /\ Commands["transform"].Background = "no colour"


\* The toResult call of the export has returned a Result.
FetchSucceeded == FetchAnswered /\ ret.fetch[1].err = <<>> /\ ret.fetch[1].r # <<>>

\* The number in the Compression-Count header of the response, 0 without
\* the header.
HeaderCount(response) ==
    IF response.Header.CompressionCount = <<"1">> THEN 1 ELSE 0

\* C13: when the fetch succeeded, ToFileC and ToBufferC return the count of
\* the Compression-Count header of that response, also when the next step
\* fails: ToFileC returns it with the write error when the file cannot be
\* written, ToBufferC returns it with an error when the payload is empty.
C13_CountDespiteFailure ==
    (ret.op \in {"ToFileC", "ToBufferC"} /\ FetchSucceeded) =>
        /\ ret.count = HeaderCount(ret.resp[1])
        /\ (ret.op = "ToFileC" /\ ~ret.wrote) =>
              (ret.kind = "error" /\ ret.err # <<>> /\ ret.err[1].kind = "io")
        /\ (ret.op = "ToBufferC" /\ Len(ret.fetch[1].r[1].data) = 0) =>
              (ret.kind = "error" /\ ret.err # <<>> /\ ret.err[1].kind = "empty")

\* ToBufferC has returned the count 1 with the error for an empty payload.
C13_Witness ==
    /\ ret.op = "ToBufferC"
    /\ FetchSucceeded
    /\ Len(ret.fetch[1].r[1].data) = 0
    /\ ret.kind = "error"
    /\ ret.count = 1

\* ToFileC has returned the count 1 with the error of the write.
C13_WitnessFile ==
    /\ ret.op = "ToFileC"
    /\ FetchSucceeded
    /\ ~ret.wrote
    /\ ret.kind = "error"
    /\ ret.count = 1


\* The URL an export of the Source s asks for.
ExportURL(s) == IF HasPrefix(s.url, "https") THEN s.url ELSE API_ENDPOINT \o s.url

\* The body an export of the Source s sends: its commands as JSON, nothing
\* for a Source without commands.
ExportBody(s) ==
    IF DOMAIN s.commands = {} THEN <<>> ELSE <<MarshalJSON(s.commands)>>

\* C14: no caching.  Every export call on a Source with a URL, made with a
\* key set, sends exactly one GET, whatever was exported before; the URL
\* and the commands of the request are those of the Source, so that
\* consecutive exports of an unchanged Source send the same request each;
\* the payload and the count the call returns are those of the response to
\* its own request.
C14_EachExportFetches ==
    (ret.op \in Exports /\ Len(src[1].url) > 0 /\ key # "") =>
        /\ Len(ret.sent) = 1
        /\ ret.sent[1].method = "GET"
        /\ ret.sent[1].url = ExportURL(src[1])
        /\ ret.sent[1].body = ExportBody(src[1])
        /\ (ret.kind = "ok" /\ ret.op \in {"ToBufferC", "ToBuffer"}) =>
              (ret.resp # <<>> /\ ret.data = ret.resp[1].Body)
        /\ (ret.kind = "ok" /\ ret.op \in {"ToFileC", "ToFile"}) =>
              (ret.resp # <<>> /\ disk = <<ret.resp[1].Body>>)
        /\ (ret.kind = "ok" /\ ret.op \in {"ToFileC", "ToBufferC"}) =>
              ret.count = HeaderCount(ret.resp[1])

\* After an export that wrote a file, a ToBufferC on a Source with commands
\* has returned another payload, that of its own response, and the count 1.
C14_Witness ==
    /\ ret.op = "ToBufferC"
    /\ ret.kind = "ok"
    /\ disk # <<>>
    /\ ret.data # disk[1]
    /\ ret.data = ret.resp[1].Body
    /\ ret.count = 1
    /\ Len(ret.sent) = 1
    /\ ret.sent[1].body # <<>>


\* C15: no retry.  Every factory call and every export call sends at most
\* one HTTP request; a call whose request met a transport error, or was
\* answered with a status >= 400, has sent that one request and does not
\* end well.
C15_AtMostOneRequest ==
    ret.op \in (Factories \cup Exports) =>
        /\ Len(ret.sent) <= 1
        /\ Len(ret.resp) <= Len(ret.sent)
        /\ (ret.sent # <<>> /\ ret.resp = <<>>) => ret.kind # "ok"
        /\ (ret.op \in Exports /\ ret.resp # <<>> /\ ret.resp[1].StatusCode >= 400) =>
              (Len(ret.sent) = 1 /\ ret.kind # "ok")

\* FromBuffer has returned the transport error of its one request.
C15_Witness ==
    /\ ret.op = "FromBuffer"
    /\ Len(ret.sent) = 1
    /\ ret.resp = <<>>
    /\ ret.kind = "error"
    /\ ret.err[1].kind = "transport"


\* C16: every HTTP request sent carries Basic authentication with the
\* username "api" and, as password, the configured API key: the value most
\* recently passed to SetKey when the request is made.
C16_RequestCarriesKey ==
    (ret.op \in (Factories \cup Exports) /\ ret.sent # <<>>) =>
        /\ ret.sent[1].username = "api"
        /\ ret.sent[1].password = key

\* After SetKey("key-2") a request was sent with the password key-1.
C16_Witness ==
    /\ ret.op \in (Factories \cup Exports)
    /\ ret.sent # <<>>
    /\ key = "key-2"
    /\ ret.sent[1].username = "api"
    /\ ret.sent[1].password = "key-1"


\* What the call passes to Client.Request as urlRequest.
RequestTarget == IF ret.op \in Exports THEN src[1].url ELSE "/shrink"

\* C17, as stated: a request goes to the given URL unchanged when that is an
\* absolute URL with the secure scheme and to the service endpoint followed
\* by the given path otherwise, and the GET of an export goes to exactly
\* the URL the Source got from the Location header of the upload.
C17_FetchGoesToLocation ==
    (ret.op \in (Factories \cup Exports) /\ ret.sent # <<>>) =>
        /\ ret.sent[1].url = IF HasPrefix(RequestTarget, "https://")
                             THEN RequestTarget
                             ELSE API_ENDPOINT \o RequestTarget
        /\ ret.op \in Exports => ret.sent[1].url = src[1].url

\* C17, amended: a request goes to the given URL unchanged when that starts
\* with the lowercase letters https, and to the service endpoint followed by
\* the given string otherwise; so the GET of an export goes to the URL of
\* the Source when that starts with https and to the endpoint followed by
\* that URL when it does not.
C17_RequestURL ==
    (ret.op \in (Factories \cup Exports) /\ ret.sent # <<>>) =>
        /\ HasPrefix(RequestTarget, "https") => ret.sent[1].url = RequestTarget
        /\ ~HasPrefix(RequestTarget, "https") =>
              ret.sent[1].url = API_ENDPOINT \o RequestTarget
        /\ ret.op \in Factories => ret.sent[1].url = "https://api.tinify.com/shrink"

\* An export of a Source made from the Location /output/abc has sent its
\* GET to the endpoint followed by /output/abc.
C17_Witness ==
    /\ ret.op \in Exports
    /\ ret.sent # <<>>
    /\ src[1].url = "/output/abc"
    /\ ret.sent[1].url = "https://api.tinify.com/output/abc"


\* The URL of a direct call of Request, once completed, is one url.Parse
\* takes.
RequestURLParses ==
    URLParses(IF HasPrefix(ret.arg.urlRequest, "https")
              THEN ret.arg.urlRequest
              ELSE API_ENDPOINT \o ret.arg.urlRequest)

\* C18: Request called with a body that is neither raw bytes nor a mapping
\* returns an error made locally and sends nothing; the error is the
\* validation error of the body unless the URL was rejected before.
C18_BadBodyNotSent ==
    (ret.op = "Request" /\ ret.arg.body.type \notin {"bytes", "map"}) =>
        /\ ret.kind = "error"
        /\ ret.err # <<>>
        /\ ret.sent = <<>>
        /\ ret.resp = <<>>
        /\ RequestURLParses => ret.err[1].kind = "validation"

\* Request with a string as body has returned the validation error.
C18_Witness ==
    /\ ret.op = "Request"
    /\ ret.arg.body.type = "string"
    /\ ret.arg.urlRequest = "/shrink"
    /\ ret.kind = "error"
    /\ ret.err[1].kind = "validation"
    /\ ret.sent = <<>>

\* C19, as stated: Request accepts an absent body (sent with no body), raw
\* bytes (sent as they are) and a mapping (sent as its JSON, with the
\* Content-Type application/json); the content type is set only for a
\* mapping.
C19_ThreeBodyKinds ==
    (ret.op = "Request" /\ RequestURLParses
        /\ ret.arg.body.type \in {"nil", "bytes", "map"}) =>
        /\ ret.sent # <<>>
        /\ ret.arg.body.type = "nil" =>
              (ret.sent[1].body = <<>> /\ ret.sent[1].contentType = <<>>)
        /\ ret.arg.body.type = "bytes" =>
              /\ ret.sent[1].body = IF Len(ret.arg.body.value) = 0 THEN <<>>
                                    ELSE <<ret.arg.body.value>>
              /\ ret.sent[1].contentType = <<>>
        /\ ret.arg.body.type = "map" =>
              /\ ret.sent[1].body = <<MarshalJSON(ret.arg.body.value)>>
              /\ ret.sent[1].contentType = <<"application/json">>

\* C19, amended: Request accepts raw bytes and a mapping.  Bytes are sent as
\* they are, without a content type, and with no body when there are none;
\* a mapping is sent as its JSON with the Content-Type application/json, and
\* with that content type but no body when it is empty.  A nil body is
\* rejected with the validation error and nothing is sent.
C19_TwoBodyKinds ==
    (ret.op = "Request" /\ RequestURLParses) =>
        /\ ret.arg.body.type = "nil" =>
              (ret.kind = "error" /\ ret.err[1].kind = "validation" /\ ret.sent = <<>>)
        /\ ret.arg.body.type = "bytes" =>
              /\ ret.sent # <<>>
              /\ ret.sent[1].body = IF Len(ret.arg.body.value) = 0 THEN <<>>
                                    ELSE <<ret.arg.body.value>>
              /\ ret.sent[1].contentType = <<>>
        /\ ret.arg.body.type = "map" =>
              /\ ret.sent # <<>>
              /\ ret.sent[1].body = IF DOMAIN ret.arg.body.value = {} THEN <<>>
                                    ELSE <<MarshalJSON(ret.arg.body.value)>>
              /\ ret.sent[1].contentType = <<"application/json">>

\* Request with a nil body has returned the validation error and sent nothing.
C19_Witness ==
    /\ ret.op = "Request"
    /\ ret.arg.body.type = "nil"
    /\ ret.arg.urlRequest = "/shrink"
    /\ ret.kind = "error"
    /\ ret.err[1].kind = "validation"
    /\ ret.sent = <<>>


\* The Client the request of the call was made on.
RequestClient == IF ret.op = "Request" THEN ret.arg.client ELSE client[1]

\* The proxy function of the order of precedence: the global proxy, then
\* the proxy of the Client, each when not empty and parsed, then the
\* environment (the proxy explicit to the call is always empty).
ProxyByPrecedence(c) ==
    IF Len(proxy) > 0 /\ URLParses(proxy) THEN ProxyURL(<<proxy>>)
    ELSE IF Len(c.proxy) > 0 /\ URLParses(c.proxy) THEN ProxyURL(<<c.proxy>>)
    ELSE ProxyFromEnvironment

\* C20: the proxy of a request is chosen in strict order of precedence,
\* stopping at the first source that is not empty and parses: the global
\* proxy, the proxy of the Client, the proxy explicit to the call, the
\* environment, no proxy; with no global proxy the proxy of the Client is
\* used, and with neither the environment is consulted.
C20_ProxyPrecedence ==
    (ret.op \in ({"Request"} \cup Factories \cup Exports) /\ ret.sent # <<>>) =>
        /\ ret.sent[1].proxy = ProxyByPrecedence(RequestClient)
        /\ transport = ProxyByPrecedence(RequestClient)

\* With no global proxy, a request made on a Client with a proxy was sent
\* with http.ProxyURL(nil), which is no proxy.
C20_Witness ==
    /\ ret.op = "Request"
    /\ proxy = ""
    /\ ret.arg.client.proxy = ClientProxy
    /\ ret.sent # <<>>
    /\ ret.sent[1].proxy = ProxyURL(<<>>)
    /\ transport = ProxyURL(<<>>)


\* The global proxy is set to a string url.Parse rejects.
GlobalProxyMalformed == Len(proxy) > 0 /\ ~URLParses(proxy)

\* C21: a malformed proxy URL is treated as absent: the resolution goes on
\* to the next level of precedence (a malformed global proxy with a valid
\* proxy of the Client selects the proxy of the Client, and the environment
\* without one), and the request does not fail because of it.
C21_MalformedFallsThrough ==
    (/\ ret.op \in ({"Request"} \cup Factories \cup Exports)
     /\ GlobalProxyMalformed
     /\ (ret.op = "Request" => RequestURLParses /\ ret.arg.body.type \in {"bytes", "map"})
     /\ (ret.op # "Request" => key # "")) =>
        /\ ret.sent # <<>>
        /\ ret.sent[1].proxy =
              IF Len(RequestClient.proxy) > 0 /\ URLParses(RequestClient.proxy)
              THEN ProxyURL(<<RequestClient.proxy>>)
              ELSE ProxyFromEnvironment

\* With a malformed global proxy, a request made on a Client with a valid
\* proxy was sent with a nil proxy function, which is no proxy.
C21_Witness ==
    /\ ret.op = "Request"
    /\ GlobalProxyMalformed
    /\ ret.arg.client.proxy = ClientProxy
    /\ ret.kind = "ok"
    /\ ret.sent # <<>>
    /\ ret.sent[1].proxy = NilProxyFunc
    /\ transport = NilProxyFunc


\* The decimal numeral of the natural number n.
RECURSIVE NumeralOf(_)
NumeralOf(n) ==
    IF n < 10 THEN CHOOSE c \in DOMAIN Digits : Digits[c] = n
    ELSE NumeralOf(n \div 10) \o (CHOOSE c \in DOMAIN Digits : Digits[c] = n % 10)

\* The decimal numeral of the integer n.
Itoa(n) == IF n < 0 THEN "-" \o NumeralOf(0 - n) ELSE NumeralOf(n)

\* The string is a decimal numeral: digits after an optional minus sign.
IsNumeral(s) ==
    LET digits == IF HasPrefix(s, "-") THEN SubSeq(s, 2, Len(s)) ELSE s
    IN /\ Len(digits) > 0
       /\ \A i \in 1..Len(digits) : CharAt(digits, i) \in DOMAIN Digits

\* The accessor of a number header gave value for the header: 0 without
\* the header or when its value is no numeral, and else the number the
\* numeral stands for.
NumberOfHeader(header, value) ==
    IF Len(header) = 0 \/ ~IsNumeral(header[1])
    THEN value = 0
    ELSE Itoa(value) = header[1]

\* C22: the accessors never fail: width, height, size and compressionCount
\* return the integer value of their header (Content-Length 12345 gives
\* 12345) and 0 when the header is absent or is no integer; location and
\* mediaType return the header string, and the empty string without it.
C22_AccessorsOfHeaders ==
    ret.op = "Meta" =>
        /\ NumberOfHeader(ret.arg.ImageWidth, ret.data.width)
        /\ NumberOfHeader(ret.arg.ImageHeight, ret.data.height)
        /\ NumberOfHeader(ret.arg.ContentLength, ret.data.size)
        /\ NumberOfHeader(ret.arg.CompressionCount, ret.data.compressionCount)
        /\ ret.data.location = IF ret.arg.Location = <<>> THEN "" ELSE ret.arg.Location[1]
        /\ ret.data.mediaType = IF ret.arg.ContentType = <<>> THEN ""
                                ELSE ret.arg.ContentType[1]

\* size() has returned the largest int for the Content-Length 3000000000.
C22_Witness ==
    /\ ret.op = "Meta"
    /\ ret.arg.ContentLength = <<"3000000000">>
    /\ ret.data.size = MaxInt


\* C23: FromUrl with an empty URL returns a validation error and sends no
\* request; with a URL, and a key set, it sends exactly one POST to /shrink
\* on the service endpoint, whose body is the JSON {"source":{"url": url}}.
C23_FromUrlUpload ==
    ret.op = "FromUrl" =>
        /\ Len(ret.arg) = 0 => (ValidationError /\ ret.sent = <<>> /\ ret.source = <<>>)
        /\ (Len(ret.arg) > 0 /\ key # "") =>
              /\ Len(ret.sent) = 1
              /\ ret.sent[1].method = "POST"
              /\ ret.sent[1].url = "https://api.tinify.com/shrink"
              /\ ret.sent[1].body = <<[source |-> [url |-> ret.arg]]>>
              /\ ret.sent[1].contentType = <<"application/json">>

\* FromUrl of a URL has sent its POST and got a Source.
C23_Witness ==
    /\ ret.op = "FromUrl"
    /\ ret.arg = "http://example.com/in.jpg"
    /\ ret.kind = "ok"
    /\ Len(ret.sent) = 1
    /\ ret.sent[1].body = <<[source |-> [url |-> "http://example.com/in.jpg"]]>>

\* FromUrl of the empty URL has returned its validation error.
C23_WitnessEmpty ==
    /\ ret.op = "FromUrl"
    /\ ret.arg = ""
    /\ ValidationError
    /\ ret.sent = <<>>


\* The call gets as far as GetClient(): a factory that has its input, an
\* export of a Source that has a URL.
NeedsClient ==
    \/ ret.op = "FromBuffer"
    \/ ret.op = "FromFile" /\ ret.arg # <<>>
    \/ ret.op = "FromUrl" /\ Len(ret.arg) > 0
    \/ ret.op \in Exports /\ Len(src[1].url) > 0

\* C24, as stated: while the key is empty, a factory or export call that
\* needs the client returns a configuration error to its caller and sends
\* no request; no request is sent with an empty key.
C24_EmptyKeyError ==
    /\ (key = "" /\ NeedsClient) =>
          (ret.kind = "error" /\ ret.err # <<>> /\ ret.sent = <<>>)
    /\ (ret.op \in (Factories \cup Exports) /\ ret.sent # <<>>) =>
          ret.sent[1].password # ""

\* C24, amended: while the key is empty, a factory or export call that
\* needs the client panics in GetClient: no error value and no Source or
\* Result is returned, and no request is sent; no factory or export call
\* sends a request with an empty key.
C24_EmptyKeyPanics ==
    /\ (key = "" /\ NeedsClient) =>
          /\ ret.kind = "panic"
          /\ ret.err = <<>>
          /\ ret.fetch = <<>>
          /\ ret.source = <<>>
          /\ ret.sent = <<>>
    /\ (ret.op \in (Factories \cup Exports) /\ ret.sent # <<>>) =>
          ret.sent[1].password # ""

\* FromBuffer has panicked with no key set.
C24_Witness ==
    /\ ret.op = "FromBuffer"
    /\ key = ""
    /\ ret.kind = "panic"
    /\ ret.sent = <<>>


C26_ResizeStoredInRange ==
    "resize" \in DOMAIN Commands =>
        /\ Commands["resize"].Method \in NamedMethods \cup {ResizeMethodScale}
        /\ Commands["resize"].Width >= 0
        /\ Commands["resize"].Height >= 0

\* Resize has accepted the method scale with a negative width and a zero
\* height, and the Source holds that option.
C26_Witness ==
    /\ ret.op = "Resize"
    /\ ret.arg # <<>>
    /\ ret.arg[1].Method = ResizeMethodScale
    /\ ret.arg[1].Width < 0
    /\ ret.arg[1].Height = 0
    /\ ResizeStored(ret.arg[1])


\* C27: a Resize, Convert or Transform call that returns an error leaves
\* the Source as it was before the call: its command set, its URL and its
\* compression count are unchanged, a command stored earlier under the
\* same name included.
C27_FailedCommandKeepsSource ==
    [][(ret'.op \in {"Resize", "Convert", "Transform"} /\ ret'.kind = "error")
          => src' = src]_vars

\* Resize has refused an option while the Source holds the resize option of
\* an earlier call, which differs from the refused one.
C27_Witness ==
    /\ ret.op = "Resize"
    /\ ret.kind = "error"
    /\ ret.arg # <<>>
    /\ "resize" \in DOMAIN Commands
    /\ Commands["resize"] # ret.arg[1]


\* C28: every Source a factory returns without error has a non-empty URL,
\* whatever the upload response was, and no export fails with the
\* validation error of the empty URL.
C28_FactorySourceHasURL ==
    /\ (ret.op \in Factories /\ ret.kind = "ok") =>
           /\ ret.source # <<>>
           /\ Len(ret.source[1].url) > 0
    /\ (ret.op \in Exports /\ ret.fetch # <<>> /\ ret.fetch[1].err # <<>>) =>
           ret.fetch[1].err[1].msg # "url is empty"

\* A factory has returned, without error, the Source of an upload response
\* whose Location header is present with the empty value.
C28_Witness ==
    /\ ret.op \in Factories
    /\ ret.kind = "ok"
    /\ ret.resp # <<>>
    /\ ret.resp[1].Header.Location = <<"">>
    /\ ret.source # <<>>
    /\ ret.source[1].url = ""


\* C30: the response a factory call or an export call has obtained has its
\* body closed when the call returns, whether the call succeeds or fails.
C30_BodiesClosed ==
    (ret.op \in Factories \cup Exports /\ ret.resp # <<>>) => ret.resp[1].Closed

\* FromBuffer has returned a Source without error and the body of the
\* upload response is still open.
C30_Witness ==
    /\ ret.op = "FromBuffer"
    /\ ret.kind = "ok"
    /\ ret.source # <<>>
    /\ ret.resp # <<>>
    /\ ~ret.resp[1].Closed


\* C29: the options are stored by value.  An assignment the caller makes to
\* an option object after Resize or Transform accepted it leaves the
\* Source as it was, and the resize option an export sends is one that
\* passes the tests of Resize.
C29_OptionsStoredByValue ==
    [][/\ (ret'.op = "Write") => src' = src
       /\ (ret'.op \in Exports /\ ret'.sent # <<>> /\ "resize" \in DOMAIN Commands) =>
              /\ ret'.sent[1].body = <<MarshalJSON(Commands)>>
              /\ ResizeCheck(Commands["resize"]) = <<>>]_vars

\* An export has sent a resize option that Resize refuses: the caller has
\* written it into the option object after Resize had accepted the object.
C29_Witness ==
    /\ ret.op \in Exports
    /\ ret.sent # <<>>
    /\ "resize" \in DOMAIN Commands
    /\ ResizeCheck(Commands["resize"]) # <<>>
    /\ ret.sent[1].body = <<MarshalJSON(Commands)>>

====
